---------------------------- MODULE Spec2Model ----------------------------
(***************************************************************************)
(* IoT-Network: the application service (application_service.py), its row  *)
(* data gateways over one shared SQLite connection (gateways.py) and the   *)
(* topology analysis of the domain model (domain_models.py).               *)
(*                                                                         *)
(* The store is the SQLite database as seen through the single connection  *)
(* the service opens: `db` is what a statement on the connection reads and *)
(* writes, `committed` is what a rollback returns to.  The schema declares *)
(* ON DELETE CASCADE foreign keys, but the connection never issues         *)
(* PRAGMA foreign_keys = ON, so SQLite enforces none of them: the only     *)
(* cascades are the DELETE statements the gateways issue themselves.       *)
(*                                                                         *)
(* Rows keep the columns that decide control flow or that the properties   *)
(* read: device status and type, data source type and last_update never    *)
(* reach a condition of the operations modelled here and are left out.     *)
(***************************************************************************)
EXTENDS Integers, Sequences, FiniteSets, TLC

VARIABLES
    db,         \* the database as the shared connection sees it
    committed,  \* the database as of the last COMMIT
    inTx,       \* sqlite3 Connection.in_transaction
    clock,      \* datetime.now(), in ticks
    pc,         \* per request thread: the position in the running operation
    loc,        \* per request thread: the locals of the running operation
    res,        \* per request thread: what the last finished operation returned
    ops,        \* number of service calls started so far
    faults,     \* number of storage errors raised so far
    snapshot,   \* the device list, the device or the report handed to the
                \* domain model (pure checks)
    report      \* what the domain model returned for it (pure checks)

vars == <<db, committed, inTx, clock, pc, loc, res, ops, faults, snapshot,
          report>>

---------------------------------------------------------------------------
(* Bounds of the model *)

\* service calls per behaviour
MaxOps == 4
\* storage errors (sqlite3.Error raised by a statement) per behaviour
MaxFaults == 1
\* devices of a device list analysed on its own
MaxTopoDevices == 3
\* adjacency entries, over all devices, of such a list
MaxTopoEdges == 3
\* the centrality scores of a report handed to get_recommendations, in
\* tenths (scores above 1 included)
MaxScoreTenths == 12
\* entries of each of the two lists of such a report
MaxIssues == 2

\* request threads of the web application (app.py serves requests from one
\* module-level service object)
Threads == {1, 2}

---------------------------------------------------------------------------
(* Helpers *)

Min(S) == CHOOSE x \in S : \A y \in S : x <= y

Max(S) == CHOOSE x \in S : \A y \in S : x >= y

Range(s) == {s[i] : i \in 1..Len(s)}

RECURSIVE SortedSeq(_)
\* ORDER BY id
SortedSeq(S) ==
    IF S = {} THEN <<>>
    ELSE LET m == Min(S) IN <<m>> \o SortedSeq(S \ {m})

\* the pair as it is given, in the order of its ends
SortedPair_as_given(a, b) == <<a, b>>

\* tuple(sorted((a, b)))
SortedPair(a, b) == IF a <= b THEN <<a, b>> ELSE <<b, a>>

---------------------------------------------------------------------------
(* domain_models.py *)

\* a Device as the analysis reads it: its id and its connections list
MkDevice(id, connections) == [id |-> id, connections |-> connections]

DeviceIds(devices) == {devices[i].id : i \in 1..Len(devices)}

\* devices_dict[id]
DeviceOf(devices, id) ==
    devices[CHOOSE i \in 1..Len(devices) : devices[i].id = id]

\* an add_connection that appends whatever id it is given
add_connection_unchecked(device, device_id) ==
    [device EXCEPT !.connections = Append(@, device_id)]

\* Device.add_connection
add_connection(device, device_id) ==
    IF device_id \notin Range(device.connections) /\ device_id # device.id
    THEN [device EXCEPT !.connections = Append(@, device_id)]
    ELSE device

RECURSIVE EdgesFrom(_, _)
\* the (device_id, connected_id) pairs in the order the two nested loops of
\* analyze_topology visit them
EdgesFrom(devices, i) ==
    IF i > Len(devices) THEN <<>>
    ELSE [k \in 1..Len(devices[i].connections) |->
             <<devices[i].id, devices[i].connections[k]>>]
         \o EdgesFrom(devices, i + 1)

\* the test of the elif branch: the reverse entry exists
IsSymmetric(devices, device_id, connected_id) ==
    /\ connected_id \in DeviceIds(devices)
    /\ device_id \in Range(DeviceOf(devices, connected_id).connections)

RECURSIVE RedundantWalk(_, _, _, _, _)
RedundantWalk(devices, edges, k, seen_links, redundant_links) ==
    IF k > Len(edges) THEN redundant_links
    ELSE LET device_id == edges[k][1]
             connected_id == edges[k][2]
             link == SortedPair(device_id, connected_id)
         IN  IF link \in seen_links
             THEN RedundantWalk(devices, edges, k + 1, seen_links,
                                Append(redundant_links, link))
             ELSE IF IsSymmetric(devices, device_id, connected_id)
             THEN RedundantWalk(devices, edges, k + 1, seen_links,
                                Append(redundant_links, link))
             ELSE RedundantWalk(devices, edges, k + 1,
                                seen_links \cup {link}, redundant_links)

\* the devices with an empty connections list that no other device lists
IsolatedNodes_unreferenced(devices) ==
    LET Alone(d) == /\ d.connections = <<>>
                    /\ \A i \in 1..Len(devices) :
                          d.id \notin Range(devices[i].connections)
        kept == SelectSeq(devices, Alone)
    IN  [k \in 1..Len(kept) |-> kept[k].id]

\* isolated_nodes: the devices whose own connections list is empty
IsolatedNodes(devices) ==
    LET Empty(d) == d.connections = <<>>
        kept == SelectSeq(devices, Empty)
    IN  [k \in 1..Len(kept) |-> kept[k].id]

RECURSIVE SumDegrees(_, _)
SumDegrees(devices, i) ==
    IF i > Len(devices) THEN 0
    ELSE Len(devices[i].connections) + SumDegrees(devices, i + 1)

\* avg_centrality as the fraction <<numerator, denominator>>: the mean over
\* the n devices of degree / (n - 1), and 0 when there is a single device
AvgCentrality(devices) ==
    LET n == Len(devices)
    IN  IF n - 1 > 0 THEN <<SumDegrees(devices, 1), n * (n - 1)>>
        ELSE <<0, 1>>

\* IoTNetwork.analyze_topology, for a non-empty list of devices with
\* distinct ids (an empty list raises ValueError)
analyze_topology(devices) ==
    [centrality_score |-> AvgCentrality(devices),
     isolated_nodes   |-> IsolatedNodes(devices),
     redundant_links  |-> RedundantWalk(devices, EdgesFrom(devices, 1), 1,
                                        {}, <<>>)]

\* a validation that only refuses the empty device list
validate_connections_nonempty(devices) == devices # <<>>

\* IoTNetwork.validate_connections
validate_connections(devices) ==
    /\ devices # <<>>
    /\ \A i \in 1..Len(devices) :
         \A k \in 1..Len(devices[i].connections) :
            devices[i].connections[k] \in DeviceIds(devices)

\* a < b for the fractions a and b with positive denominators
Less(a, b) == a[1] * b[2] < b[1] * a[2]

\* a <= b for such fractions
AtMost(a, b) == a[1] * b[2] <= b[1] * a[2]

\* the centrality advice with both thresholds taken inclusively
CentralityAdvice_inclusive(score) ==
    IF AtMost(score, <<3, 10>>) THEN <<"low_centrality">>
    ELSE IF AtMost(<<7, 10>>, score) THEN <<"high_centrality">>
    ELSE <<>>

\* if centrality_score < 0.3: ... elif centrality_score > 0.7: ...
CentralityAdvice(score) ==
    IF Less(score, <<3, 10>>) THEN <<"low_centrality">>
    ELSE IF Less(<<7, 10>>, score) THEN <<"high_centrality">>
    ELSE <<>>

\* AnalysisResult.get_recommendations: the kinds of the messages, in order
get_recommendations(self) ==
    LET recommendations ==
            (IF self.isolated_nodes # <<>> THEN <<"isolated">> ELSE <<>>)
            \o (IF self.redundant_links # <<>> THEN <<"redundant">>
                ELSE <<>>)
            \o CentralityAdvice(self.centrality_score)
    IN  IF recommendations = <<>> THEN <<"healthy">> ELSE recommendations

\* IoTNetworkService._generate_recommendations (application.py): the same
\* rules over the analysis it is handed
generate_recommendations(analysis) ==
    LET recommendations ==
            (IF analysis.isolated_nodes # <<>> THEN <<"isolated">> ELSE <<>>)
            \o (IF analysis.redundant_links # <<>> THEN <<"redundant">>
                ELSE <<>>)
            \o (IF Less(analysis.centrality_score, <<3, 10>>)
                THEN <<"low_centrality">>
                ELSE IF Less(<<7, 10>>, analysis.centrality_score)
                THEN <<"high_centrality">>
                ELSE <<>>)
    IN  IF recommendations = <<>> THEN <<"healthy">> ELSE recommendations

\* round(centrality_score, 4), in units of 1/10000
Round4(score) == (score[1] * 20000 + score[2]) \div (2 * score[2])

---------------------------------------------------------------------------
(* application_service.py: the sample datasets *)

\* get_sample_datasets.  simple_test is the catalogue's entry; smart_city is
\* the catalogue's entry cut down to the devices 305 and 306 with the links
\* between them (the catalogue lists that pair in both directions) and two of
\* its data sources.  smart_home and industrial_iot take the same path
\* through load_iot_data as simple_test and are left out.
Datasets ==
    [simple_test |->
        [devices |-> << [original_id |-> 401, name |-> "Sensor 1"],
                        [original_id |-> 402, name |-> "Sensor 2"],
                        [original_id |-> 403, name |-> "Controller"] >>,
         connections |-> << <<401, 403>>, <<402, 403>> >>,
         data_sources |-> << [name |-> "Test API"] >>],
     smart_city |->
        [devices |-> << [original_id |-> 305, name |-> "District controller"],
                        [original_id |-> 306, name |-> "LoRaWAN gateway"] >>,
         connections |-> << <<306, 305>>, <<305, 306>> >>,
         data_sources |-> << [name |-> "LoRaWAN Network Server"],
                             [name |-> "City Management API"] >>]]

\* the dataset_name argument: a catalogue key, None ("") or an unknown key
DatasetArgs == DOMAIN Datasets \cup {"", "no_such_dataset"}

\* The catalogue extended by entries of the kinds the loops of load_iot_data
\* provide for and get_sample_datasets does not ship:
\*   scenario_d          connection pairs that name external ids (599, 598)
\*                       that none of the device records carries;
\*   repeated_pairs      a connection pair listed twice in the same order and
\*                       once more in the reverse order;
\*   self_pair           a connection pair with both ends the same device;
\*   shared_external_id  two device records with the same original_id.
Batches ==
    Datasets @@
    [scenario_d |->
        [devices |-> << [original_id |-> 501, name |-> "Node 1"],
                        [original_id |-> 502, name |-> "Node 2"] >>,
         connections |-> << <<501, 599>>, <<501, 502>>, <<598, 502>> >>,
         data_sources |-> << [name |-> "Feed"] >>],
     repeated_pairs |->
        [devices |-> << [original_id |-> 601, name |-> "Node 1"],
                        [original_id |-> 602, name |-> "Node 2"],
                        [original_id |-> 603, name |-> "Node 3"] >>,
         connections |-> << <<601, 602>>, <<601, 602>>, <<602, 601>>,
                            <<603, 602>> >>,
         data_sources |-> <<>>],
     self_pair |->
        [devices |-> << [original_id |-> 701, name |-> "Node 1"],
                        [original_id |-> 702, name |-> "Node 2"] >>,
         connections |-> << <<701, 701>>, <<701, 702>> >>,
         data_sources |-> <<>>],
     shared_external_id |->
        [devices |-> << [original_id |-> 801, name |-> "Node 1"],
                        [original_id |-> 801, name |-> "Node 1 again"],
                        [original_id |-> 802, name |-> "Node 2"] >>,
         connections |-> << <<801, 802>> >>,
         data_sources |-> <<>>]]

\* the keys of the entries that are not in the shipped catalogue
ScenarioArgs == DOMAIN Batches \ DOMAIN Datasets

---------------------------------------------------------------------------
(* gateways.py: the tables and the row data gateways *)

\* _init_database: the empty tables (the users table plays no part here)
EmptyDb ==
    [iot_networks       |-> {},
     devices            |-> {},
     device_connections |-> <<>>,
     data_sources       |-> {},
     analysis           |-> {},
     isolated_nodes     |-> <<>>,
     redundant_links    |-> <<>>,
     sqlite_sequence    |-> [iot_networks |-> 0, devices |-> 0,
                             data_sources |-> 0, analysis |-> 0]]

\* INTEGER PRIMARY KEY AUTOINCREMENT: the next id of a table
NextId(d, table) == d.sqlite_sequence[table] + 1

\* a finder that finds a network under every id
NetworkExists_always(d, network_id) == TRUE

\* IoTNetworkFinder.find_by_id
NetworkExists(d, network_id) == network_id \in d.iot_networks

\* IoTNetworkGateway.insert, up to its commit
IoTNetworkGateway_insert(d) ==
    [d EXCEPT !.iot_networks = @ \cup {NextId(d, "iot_networks")},
              !.sqlite_sequence.iot_networks = @ + 1]

\* IoTNetworkGateway.delete, up to its commit: the one DELETE statement
IoTNetworkGateway_delete(d, network_id) ==
    [d EXCEPT !.iot_networks = @ \ {network_id}]

\* DeviceFinder.find_by_id
DeviceExists(d, device_id) == \E r \in d.devices : r.id = device_id

\* a finder that does not filter by network_id
DeviceFinder_find_all(d, network_id) ==
    SortedSeq({r.id : r \in d.devices})

\* DeviceFinder.find_by_network: the ids, ORDER BY id
DeviceFinder_find_by_network(d, network_id) ==
    SortedSeq({r.id : r \in {x \in d.devices : x.network_id = network_id}})

\* DeviceGateway.insert, up to its commit
DeviceGateway_insert(d, device_name, network_id) ==
    [d EXCEPT !.devices = @ \cup {[id |-> NextId(d, "devices"),
                                   device_name |-> device_name,
                                   network_id |-> network_id]},
              !.sqlite_sequence.devices = @ + 1]

\* a delete that purges only the rows the device owns
DeviceGateway_delete_own_rows(d, id) ==
    LET Keep(row) == row[1] # id
    IN  [d EXCEPT !.device_connections = SelectSeq(@, Keep),
                  !.devices = {r \in @ : r.id # id}]

\* DeviceGateway.delete, up to its first commit
DeviceGateway_delete_device(d, id) ==
    LET Keep(row) == row[1] # id /\ row[2] # id
    IN  [d EXCEPT !.device_connections = SelectSeq(@, Keep),
                  !.devices = {r \in @ : r.id # id}]

\* a purge keyed on the analysis_id column instead of the device columns
DeviceGateway_delete_rows_of_analysis(d, id) ==
    LET Keep(row) == row[1] # id
    IN  [d EXCEPT !.isolated_nodes = SelectSeq(@, Keep),
                  !.redundant_links = SelectSeq(@, Keep)]

\* DeviceGateway.delete, from its first commit to its second
DeviceGateway_delete_report_rows(d, id) ==
    LET KeepNode(row) == row[2] # id
        KeepLink(row) == row[2] # id /\ row[3] # id
    IN  [d EXCEPT !.isolated_nodes = SelectSeq(@, KeepNode),
                  !.redundant_links = SelectSeq(@, KeepLink)]

\* DeviceGateway.delete
DeviceGateway_delete(d, id) ==
    DeviceGateway_delete_report_rows(DeviceGateway_delete_device(d, id), id)

\* DeviceGateway.to_domain_model: the device with the connected_device_id
\* of its rows.  The SELECT has no ORDER BY and SQLite answers it from the
\* index of UNIQUE(device_id, connected_device_id): the ids come in
\* ascending order.
DeviceGateway_to_domain_model(d, id) ==
    LET Mine(row) == row[1] = id
        rows == SelectSeq(d.device_connections, Mine)
    IN  MkDevice(id, SortedSeq({rows[k][2] : k \in 1..Len(rows)}))

\* UNIQUE(device_id, connected_device_id): the position of the first entry
\* of the list that repeats an earlier one, 0 when there is none
FirstRepeat(connections) ==
    LET bad == {k \in 1..Len(connections) :
                  \E j \in 1..(k - 1) : connections[j] = connections[k]}
    IN  IF bad = {} THEN 0 ELSE Min(bad)

\* DeviceGateway.save_connections, up to its commit or, when an INSERT
\* violates the UNIQUE constraint, up to the IntegrityError
DeviceGateway_save_connections(d, id, connections) ==
    LET Others(row) == row[1] # id
        upto == IF FirstRepeat(connections) = 0 THEN Len(connections)
                ELSE FirstRepeat(connections) - 1
    IN  [d EXCEPT !.device_connections =
            SelectSeq(@, Others) \o [k \in 1..upto |-> <<id, connections[k]>>]]

\* DataSourceFinder.find_by_network: the ids, ORDER BY id
DataSourceFinder_find_by_network(d, network_id) ==
    SortedSeq({r.id : r \in {x \in d.data_sources : x.network_id = network_id}})

\* DataSourceGateway.insert, up to its commit
DataSourceGateway_insert(d, datasource_name, network_id) ==
    [d EXCEPT !.data_sources = @ \cup {[id |-> NextId(d, "data_sources"),
                                        datasource_name |-> datasource_name,
                                        network_id |-> network_id]},
              !.sqlite_sequence.data_sources = @ + 1]

\* a delete that leaves the data source row in place
DataSourceGateway_delete_nothing(d, id) == d

\* DataSourceGateway.delete, up to its commit
DataSourceGateway_delete(d, id) ==
    [d EXCEPT !.data_sources = {r \in @ : r.id # id}]

\* an insert that replaces the earlier analysis rows of the network
AnalysisGateway_insert_replacing(d, centrality_score, date, network_id) ==
    [d EXCEPT !.analysis = {r \in @ : r.network_id # network_id}
                              \cup {[id |-> NextId(d, "analysis"),
                                     centrality_score |-> centrality_score,
                                     date |-> date,
                                     network_id |-> network_id]},
              !.sqlite_sequence.analysis = @ + 1]

\* AnalysisGateway.insert, up to its commit
AnalysisGateway_insert(d, centrality_score, date, network_id) ==
    [d EXCEPT !.analysis = @ \cup {[id |-> NextId(d, "analysis"),
                                    centrality_score |-> centrality_score,
                                    date |-> date,
                                    network_id |-> network_id]},
              !.sqlite_sequence.analysis = @ + 1]

\* AnalysisGateway.save_details: the first loop
AnalysisGateway_save_isolated(d, id, isolated_nodes) ==
    [d EXCEPT !.isolated_nodes =
        @ \o [k \in 1..Len(isolated_nodes) |-> <<id, isolated_nodes[k]>>]]

\* AnalysisGateway.save_details, up to its commit
AnalysisGateway_save_details(d, id, isolated_nodes, redundant_links) ==
    [AnalysisGateway_save_isolated(d, id, isolated_nodes)
        EXCEPT !.redundant_links =
            @ \o [k \in 1..Len(redundant_links) |->
                     <<id, redundant_links[k][1], redundant_links[k][2]>>]]

\* AnalysisGateway.to_domain_model: the report as read back from the store
AnalysisGateway_to_domain_model(d, id) ==
    LET row == CHOOSE r \in d.analysis : r.id = id
        Mine(x) == x[1] = id
        nodes == SelectSeq(d.isolated_nodes, Mine)
        links == SelectSeq(d.redundant_links, Mine)
    IN  [id               |-> id,
         centrality_score |-> row.centrality_score,
         date             |-> row.date,
         network_id       |-> row.network_id,
         isolated_nodes   |-> [k \in 1..Len(nodes) |-> nodes[k][2]],
         redundant_links  |-> [k \in 1..Len(links) |->
                                 <<links[k][2], links[k][3]>>]]

---------------------------------------------------------------------------
(* application_service.py: what a request thread holds and returns *)

Idle == [op |-> "idle"]

NoResult == [op |-> "none"]

\* device_id_map = {}
EmptyMap == [x \in {} |-> 0]

\* device_id_map[original_id] = device_id
MapPut(m, k, v) == [x \in DOMAIN m \cup {k} |-> IF x = k THEN v ELSE m[x]]

\* {'success': False, 'error': ...}; `before` records the store at the call
Failure(op, arg, error, before) ==
    [op |-> op, arg |-> arg, success |-> FALSE, error |-> error,
     before |-> before]

\* the serial number of the call thread t is in, or is starting
CallOf(t) == IF pc[t] = "idle" THEN ops + 1 ELSE loc[t].call

\* the thread returns r
Return(t, r) ==
    /\ pc' = [pc EXCEPT ![t] = "idle"]
    /\ loc' = [loc EXCEPT ![t] = Idle]
    /\ res' = [res EXCEPT ![t] = r @@ [call |-> CallOf(t)]]

\* the thread goes on to position p with locals l
Goto(t, p, l) ==
    /\ pc' = [pc EXCEPT ![t] = p]
    /\ loc' = [loc EXCEPT ![t] = l]
    /\ UNCHANGED res

\* connection.commit() at the end of a gateway call that left the store as d
Commit(d) ==
    /\ db' = d
    /\ committed' = d
    /\ inTx' = FALSE

\* connection.rollback()
Rollback ==
    /\ db' = committed
    /\ committed' = committed
    /\ inTx' = FALSE

\* a statement raised before it changed anything, in a handler that catches
\* the exception without a rollback
NoWrite == UNCHANGED <<db, committed, inTx>>

\* a service call starts
Call(t) ==
    /\ pc[t] = "idle"
    /\ ops < MaxOps
    /\ ops' = ops + 1

\* a statement raises a storage error
Raise ==
    /\ faults < MaxFaults
    /\ faults' = faults + 1

Pure == UNCHANGED <<snapshot, report>>

---------------------------------------------------------------------------
(* create_network, delete_network, add_device, remove_device *)

\* create_network
create_network(t) ==
    /\ Call(t)
    /\ \/ /\ Commit(IoTNetworkGateway_insert(db))
          /\ Return(t, [op |-> "create_network", success |-> TRUE,
                        network_id |-> NextId(db, "iot_networks")])
          /\ UNCHANGED faults
       \/ /\ Raise
          /\ NoWrite
          /\ Return(t, Failure("create_network", 0, "Exception", db))
    /\ UNCHANGED clock /\ Pure

\* delete_network
delete_network(t, network_id) ==
    /\ Call(t)
    /\ IF ~NetworkExists(db, network_id)
       THEN /\ NoWrite
            /\ Return(t, Failure("delete_network", network_id,
                                 "NetworkNotFound", db))
            /\ UNCHANGED faults
       ELSE \/ /\ Commit(IoTNetworkGateway_delete(db, network_id))
               /\ Return(t, [op |-> "delete_network", arg |-> network_id,
                             success |-> TRUE, before |-> db])
               /\ UNCHANGED faults
            \/ /\ Raise
               /\ NoWrite
               /\ Return(t, Failure("delete_network", network_id,
                                    "Exception", db))
    /\ UNCHANGED clock /\ Pure

\* the connections lists tried for add_device: none, or one entry naming an
\* existing device, the new device itself or a device that does not exist
ConnectionArgs(d) ==
    {<<>>} \cup {<<c>> : c \in 1..(d.sqlite_sequence.devices + 2)}

\* add_device
add_device(t, network_id, connections) ==
    /\ Call(t)
    /\ IF ~NetworkExists(db, network_id)
       THEN /\ NoWrite
            /\ Return(t, Failure("add_device", network_id,
                                 "NetworkNotFound", db))
            /\ UNCHANGED faults
       ELSE LET device_id == NextId(db, "devices")
                inserted == DeviceGateway_insert(db, "Manual", network_id)
                saved == DeviceGateway_save_connections(inserted, device_id,
                                                        connections)
            IN  \/ \* both gateway calls succeed
                   /\ FirstRepeat(connections) = 0
                   /\ Commit(IF connections # <<>> THEN saved ELSE inserted)
                   /\ Return(t, [op |-> "add_device", arg |-> network_id,
                                 success |-> TRUE, device_id |-> device_id,
                                 before |-> db])
                   /\ UNCHANGED faults
                \/ \* IntegrityError in save_connections: the device is
                   \* committed, the rows inserted so far stay pending
                   /\ FirstRepeat(connections) # 0
                   /\ db' = saved
                   /\ committed' = inserted
                   /\ inTx' = TRUE
                   /\ Return(t, Failure("add_device", network_id,
                                        "Exception", db))
                   /\ UNCHANGED faults
                \/ \* the INSERT of the device raises
                   /\ Raise
                   /\ NoWrite
                   /\ Return(t, Failure("add_device", network_id,
                                        "Exception", db))
                \/ \* save_connections raises at its first statement
                   /\ connections # <<>>
                   /\ Raise
                   /\ Commit(inserted)
                   /\ Return(t, Failure("add_device", network_id,
                                        "Exception", db))
    /\ UNCHANGED clock /\ Pure

\* remove_device
remove_device(t, device_id) ==
    /\ Call(t)
    /\ IF ~DeviceExists(db, device_id)
       THEN /\ NoWrite
            /\ Return(t, Failure("remove_device", device_id,
                                 "DeviceNotFound", db))
            /\ UNCHANGED faults
       ELSE \/ /\ Commit(DeviceGateway_delete(db, device_id))
               /\ Return(t, [op |-> "remove_device", arg |-> device_id,
                             success |-> TRUE, before |-> db])
               /\ UNCHANGED faults
            \/ \* a statement before the first commit raises
               /\ Raise
               /\ NoWrite
               /\ Return(t, Failure("remove_device", device_id,
                                    "Exception", db))
            \/ \* a statement after the first commit raises
               /\ Raise
               /\ Commit(DeviceGateway_delete_device(db, device_id))
               /\ Return(t, Failure("remove_device", device_id,
                                    "Exception", db))
    /\ UNCHANGED clock /\ Pure

---------------------------------------------------------------------------
(* load_iot_data.  One step per gateway call; the reads that follow a *)
(* gateway call up to the next one belong to its step.                *)

\* the position after the data sources of the batch are exhausted
EnterCommit(l) == [pc |-> "load_commit", loc |-> l]

\* for ds_data in data_sources_data
EnterInsertSources(l) ==
    IF Batches[l.dataset_name].data_sources # <<>>
    THEN [pc |-> "load_insert_sources", loc |-> [l EXCEPT !.i = 1]]
    ELSE EnterCommit(l)

\* a load that passes over the connection pairs of the batch
EnterConnections_skipped(l) == EnterInsertSources(l)

\* for source_orig_id, target_orig_id in connections_data
EnterConnections(l) ==
    IF Batches[l.dataset_name].connections # <<>>
    THEN [pc |-> "load_connections", loc |-> [l EXCEPT !.i = 1]]
    ELSE EnterInsertSources(l)

\* for device_data in devices_data
EnterInsertDevices(l) ==
    IF Batches[l.dataset_name].devices # <<>>
    THEN [pc |-> "load_insert_devices", loc |-> [l EXCEPT !.i = 1]]
    ELSE EnterConnections(l)

\* existing_source_gateways = data_source_finder.find_by_network(network_id)
EnterDeleteSources(l, d) ==
    LET found == DataSourceFinder_find_by_network(d, l.network_id)
    IN  IF found # <<>>
        THEN [pc |-> "load_delete_sources",
              loc |-> [l EXCEPT !.existing_sources = found]]
        ELSE EnterInsertDevices(l)

\* existing_device_gateways = device_finder.find_by_network(network_id)
EnterDeleteDevices(l, d) ==
    LET found == DeviceFinder_find_by_network(d, l.network_id)
    IN  IF found # <<>>
        THEN [pc |-> "load_delete_devices",
              loc |-> [l EXCEPT !.existing_devices = found]]
        ELSE EnterDeleteSources(l, d)

\* a load whose exception leaves the handler instead of being returned
LoadFails_propagates(t, l) == Rollback /\ Goto(t, "propagated", l)

\* except Exception: self.conn.rollback(); return failure
LoadFails(t, l) ==
    /\ Rollback
    /\ Return(t, Failure("load_iot_data", l.network_id, "Exception",
                         l.before)
                 @@ [dataset_name |-> l.dataset_name, phase |-> pc[t]])

\* the checks and BEGIN TRANSACTION
load_iot_data(t, network_id, dataset_name) ==
    /\ Call(t)
    /\ LET fail(error) ==
               Failure("load_iot_data", network_id, error, db)
               @@ [dataset_name |-> dataset_name, phase |-> "checks"]
           l == [op |-> "load_iot_data", call |-> ops + 1,
                 network_id |-> network_id,
                 dataset_name |-> dataset_name, before |-> db,
                 existing_devices |-> <<>>, existing_sources |-> <<>>,
                 i |-> 1, device_id_map |-> EmptyMap,
                 seen_connections |-> {}, connection_count |-> 0]
       IN  IF ~NetworkExists(db, network_id)
           THEN NoWrite /\ Return(t, fail("NetworkNotFound"))
           ELSE IF dataset_name = ""
           THEN NoWrite /\ Return(t, fail("NoDataset"))
           ELSE IF dataset_name \notin DOMAIN Batches
           THEN NoWrite /\ Return(t, fail("DatasetNotFound"))
           ELSE IF inTx
           THEN \* cannot start a transaction within a transaction
                /\ Rollback
                /\ Return(t, [fail("Exception") EXCEPT !.phase = "begin"])
           ELSE /\ db' = db
                /\ committed' = committed
                /\ inTx' = TRUE
                /\ Goto(t, EnterDeleteDevices(l, db).pc,
                           EnterDeleteDevices(l, db).loc)
    /\ UNCHANGED <<clock, faults>> /\ Pure

\* device_gateway.delete() for the next gateway of the list
load_delete_devices(t) ==
    /\ pc[t] = "load_delete_devices"
    /\ LET l == loc[t]
           id == Head(l.existing_devices)
           rest == [l EXCEPT !.existing_devices = Tail(@)]
           d == DeviceGateway_delete(db, id)
           next == IF rest.existing_devices # <<>>
                   THEN [pc |-> pc[t], loc |-> rest]
                   ELSE EnterDeleteSources(rest, d)
       IN  \/ /\ Commit(d)
              /\ Goto(t, next.pc, next.loc)
              /\ UNCHANGED faults
           \/ \* a statement before the first commit of delete() raises
              /\ Raise
              /\ LoadFails(t, l)
           \/ \* a statement after the first commit of delete() raises
              /\ Raise
              /\ Commit(DeviceGateway_delete_device(db, id))
              /\ Return(t, Failure("load_iot_data", l.network_id,
                                   "Exception", l.before)
                           @@ [dataset_name |-> l.dataset_name,
                               phase |-> pc[t]])
    /\ UNCHANGED <<clock, ops>> /\ Pure

\* source_gateway.delete() for the next gateway of the list
load_delete_sources(t) ==
    /\ pc[t] = "load_delete_sources"
    /\ LET l == loc[t]
           id == Head(l.existing_sources)
           rest == [l EXCEPT !.existing_sources = Tail(@)]
           next == IF rest.existing_sources # <<>>
                   THEN [pc |-> pc[t], loc |-> rest]
                   ELSE EnterInsertDevices(rest)
       IN  \/ /\ Commit(DataSourceGateway_delete(db, id))
              /\ Goto(t, next.pc, next.loc)
              /\ UNCHANGED faults
           \/ /\ Raise
              /\ LoadFails(t, l)
    /\ UNCHANGED <<clock, ops>> /\ Pure

\* device_gateway.insert() for the next record of the batch
load_insert_devices(t) ==
    /\ pc[t] = "load_insert_devices"
    /\ LET l == loc[t]
           records == Batches[l.dataset_name].devices
           device_data == records[l.i]
           mapped == [l EXCEPT !.device_id_map =
                          MapPut(@, device_data.original_id,
                                 NextId(db, "devices")),
                               !.i = @ + 1]
           next == IF l.i < Len(records)
                   THEN [pc |-> pc[t], loc |-> mapped]
                   ELSE EnterConnections(mapped)
       IN  \/ /\ Commit(DeviceGateway_insert(db, device_data.name,
                                             l.network_id))
              /\ Goto(t, next.pc, next.loc)
              /\ UNCHANGED faults
           \/ /\ Raise
              /\ LoadFails(t, l)
    /\ UNCHANGED <<clock, ops>> /\ Pure

\* one round of the connections loop
load_connections(t) ==
    /\ pc[t] = "load_connections"
    /\ LET l == loc[t]
           pairs == Batches[l.dataset_name].connections
           source_orig_id == pairs[l.i][1]
           target_orig_id == pairs[l.i][2]
           step(x) == IF l.i < Len(pairs)
                      THEN [pc |-> pc[t], loc |-> [x EXCEPT !.i = @ + 1]]
                      ELSE EnterInsertSources(x)
       IN  IF ~(source_orig_id \in DOMAIN l.device_id_map
                /\ target_orig_id \in DOMAIN l.device_id_map)
           THEN \* an end is not a device of the batch
                /\ NoWrite
                /\ Goto(t, step(l).pc, step(l).loc)
                /\ UNCHANGED faults
           ELSE
           LET source_id == l.device_id_map[source_orig_id]
               target_id == l.device_id_map[target_orig_id]
               connection_key == SortedPair(source_id, target_id)
               seen == [l EXCEPT !.seen_connections =
                                     @ \cup {connection_key}]
               source_device ==
                   add_connection(DeviceGateway_to_domain_model(db, source_id),
                                  target_id)
               counted == [seen EXCEPT !.connection_count = @ + 1]
           IN  IF connection_key \in l.seen_connections
               THEN /\ NoWrite
                    /\ Goto(t, step(l).pc, step(l).loc)
                    /\ UNCHANGED faults
               ELSE IF ~DeviceExists(db, source_id)
               THEN \* device_finder.find_by_id(source_id) found nothing
                    /\ NoWrite
                    /\ Goto(t, step(seen).pc, step(seen).loc)
                    /\ UNCHANGED faults
               ELSE \/ /\ Commit(DeviceGateway_save_connections(
                                     db, source_id, source_device.connections))
                       /\ Goto(t, step(counted).pc, step(counted).loc)
                       /\ UNCHANGED faults
                    \/ /\ Raise
                       /\ LoadFails(t, l)
    /\ UNCHANGED <<clock, ops>> /\ Pure

\* source_gateway.insert() for the next data source of the batch
load_insert_sources(t) ==
    /\ pc[t] = "load_insert_sources"
    /\ LET l == loc[t]
           records == Batches[l.dataset_name].data_sources
           next == IF l.i < Len(records)
                   THEN [pc |-> pc[t], loc |-> [l EXCEPT !.i = @ + 1]]
                   ELSE EnterCommit(l)
       IN  \/ /\ Commit(DataSourceGateway_insert(db, records[l.i].name,
                                                 l.network_id))
              /\ Goto(t, next.pc, next.loc)
              /\ UNCHANGED faults
           \/ /\ Raise
              /\ LoadFails(t, l)
    /\ UNCHANGED <<clock, ops>> /\ Pure

\* self.conn.commit(), the final counts and the success result
load_commit(t) ==
    /\ pc[t] = "load_commit"
    /\ LET l == loc[t]
       IN  \/ /\ Commit(db)
              /\ Return(t,
                   [op |-> "load_iot_data", arg |-> l.network_id,
                    success |-> TRUE, before |-> l.before,
                    dataset_name |-> l.dataset_name,
                    device_id_map |-> l.device_id_map,
                    devices_loaded |->
                        Len(DeviceFinder_find_by_network(db, l.network_id)),
                    connections_loaded |-> l.connection_count,
                    data_sources_loaded |->
                        Len(DataSourceFinder_find_by_network(db,
                                                             l.network_id))])
              /\ UNCHANGED faults
           \/ /\ Raise
              /\ LoadFails(t, l)
    /\ UNCHANGED <<clock, ops>> /\ Pure

---------------------------------------------------------------------------
(* analyze_topology_and_connections and get_network_details *)

\* steps 3 and 4: the devices of the network as domain models
LoadDevices(d, network_id) ==
    LET ids == DeviceFinder_find_by_network(d, network_id)
    IN  [k \in 1..Len(ids) |-> DeviceGateway_to_domain_model(d, ids[k])]

\* except Exception: return failure (no rollback)
AnalysisFails(t, l) ==
    Return(t, Failure("analyze", l.network_id, "Exception", l.before)
              @@ [phase |-> pc[t]])

\* steps 1 to 6: the checks and the analysis of the snapshot
analyze_topology_and_connections(t, network_id) ==
    /\ Call(t)
    /\ NoWrite
    /\ LET fail(error) == Failure("analyze", network_id, error, db)
                          @@ [phase |-> "checks"]
           devices == LoadDevices(db, network_id)
       IN  IF ~NetworkExists(db, network_id)
           THEN Return(t, fail("NetworkNotFound")) /\ UNCHANGED clock
           ELSE IF devices = <<>>
           THEN Return(t, fail("EmptyNetwork")) /\ UNCHANGED clock
           ELSE IF ~validate_connections(devices)
           THEN Return(t, fail("InvalidTopology")) /\ UNCHANGED clock
           ELSE \E tick \in {0, 1} :
                  /\ clock' = clock + tick
                  /\ Goto(t, "analyze_insert",
                          [op |-> "analyze", call |-> ops + 1,
                           network_id |-> network_id,
                           before |-> db, devices |-> devices,
                           analysis_result |-> analyze_topology(devices),
                           date |-> clock + tick, analysis_id |-> 0])
    /\ UNCHANGED faults /\ Pure

\* step 7: analysis_gateway.insert()
analyze_insert(t) ==
    /\ pc[t] = "analyze_insert"
    /\ LET l == loc[t]
       IN  \/ /\ Commit(AnalysisGateway_insert(
                            db, l.analysis_result.centrality_score, l.date,
                            l.network_id))
              /\ Goto(t, "analyze_save_details",
                      [l EXCEPT !.analysis_id = NextId(db, "analysis")])
              /\ UNCHANGED faults
           \/ /\ Raise
              /\ NoWrite
              /\ AnalysisFails(t, l)
    /\ UNCHANGED <<clock, ops>> /\ Pure

\* step 8: analysis_gateway.save_details()
analyze_save_details(t) ==
    /\ pc[t] = "analyze_save_details"
    /\ LET l == loc[t]
           r == l.analysis_result
       IN  \/ /\ Commit(AnalysisGateway_save_details(
                            db, l.analysis_id, r.isolated_nodes,
                            r.redundant_links))
              /\ Goto(t, "analyze_finish", l)
              /\ UNCHANGED faults
           \/ \* the first INSERT raises
              /\ Raise
              /\ NoWrite
              /\ AnalysisFails(t, l)
           \/ \* an INSERT of the second loop raises: the rows of the first
              \* loop stay pending on the connection
              /\ r.isolated_nodes # <<>>
              /\ r.redundant_links # <<>>
              /\ Raise
              /\ db' = AnalysisGateway_save_isolated(db, l.analysis_id,
                                                     r.isolated_nodes)
              /\ committed' = committed
              /\ inTx' = TRUE
              /\ AnalysisFails(t, l)
    /\ UNCHANGED <<clock, ops>> /\ Pure

RECURSIVE ByIdDesc(_)
\* the rows by descending id, whatever their dates
ByIdDesc(rows) ==
    IF rows = {} THEN <<>>
    ELSE LET first == Max({r.id : r \in rows})
         IN  <<first>> \o ByIdDesc({r \in rows : r.id # first})

\* AnalysisFinder.find_by_network: the ids of the limit most recent
\* analyses of the network, ORDER BY date DESC.  SQLite leaves the order of
\* rows with equal dates open; the model takes them by ascending id.
RECURSIVE ByDateDesc(_)
ByDateDesc(rows) ==
    IF rows = {} THEN <<>>
    ELSE LET latest == Max({r.date : r \in rows})
             first == Min({r.id : r \in {x \in rows : x.date = latest}})
         IN  <<first>> \o ByDateDesc({r \in rows : r.id # first})

AnalysisFinder_find_by_network(d, network_id, limit) ==
    LET all == ByDateDesc({r \in d.analysis : r.network_id = network_id})
    IN  SubSeq(all, 1, IF Len(all) < limit THEN Len(all) ELSE limit)

\* AnalysisFinder.find_last_by_network: the same query with LIMIT 1
AnalysisFinder_find_last_by_network(d, network_id) ==
    AnalysisFinder_find_by_network(d, network_id, 1)

\* steps 9 to 12 and the success result
analyze_finish(t) ==
    /\ pc[t] = "analyze_finish"
    /\ NoWrite
    /\ LET l == loc[t]
           r == l.analysis_result
       IN  \/ /\ Return(t,
                   [op |-> "analyze", arg |-> l.network_id,
                    success |-> TRUE, before |-> l.before,
                    analysis_id |-> l.analysis_id,
                    centrality_score |-> Round4(r.centrality_score),
                    isolated_nodes_count |-> Len(r.isolated_nodes),
                    redundant_links_count |-> Len(r.redundant_links),
                    history_count |->
                        Len(AnalysisFinder_find_by_network(db, l.network_id,
                                                           5))])
              /\ UNCHANGED faults
           \/ \* a read of steps 9 to 12 raises
              /\ Raise
              /\ AnalysisFails(t, l)
    /\ UNCHANGED <<clock, ops>> /\ Pure

\* what get_network_details reads of a network
Details(d, network_id) ==
    LET devices == LoadDevices(d, network_id)
        analyses == AnalysisFinder_find_by_network(d, network_id, 5)
    IN  [devices |-> devices,
         data_sources |-> DataSourceFinder_find_by_network(d, network_id),
         analyses |-> [k \in 1..Len(analyses) |->
                          AnalysisGateway_to_domain_model(d, analyses[k])],
         total_connections |-> SumDegrees(devices, 1)]

\* get_network_details
get_network_details(t, network_id) ==
    /\ Call(t)
    /\ NoWrite
    /\ Return(t, [op |-> "get_network_details", arg |-> network_id,
                  found |-> NetworkExists(db, network_id),
                  details |-> IF NetworkExists(db, network_id)
                              THEN Details(db, network_id)
                              ELSE Details(EmptyDb, network_id)])
    /\ UNCHANGED <<clock, faults>> /\ Pure

---------------------------------------------------------------------------
(* The service: requests run one after the other (Spec) or on two request *)
(* threads that share the connection (ConcurrentSpec)                     *)

InitService ==
    /\ db = EmptyDb
    /\ committed = EmptyDb
    /\ inTx = FALSE
    /\ clock = 0
    /\ pc = [t \in Threads |-> "idle"]
    /\ loc = [t \in Threads |-> Idle]
    /\ res = [t \in Threads |-> NoResult]
    /\ ops = 0
    /\ faults = 0

Init ==
    /\ InitService
    /\ snapshot = <<>>
    /\ report = NoResult

\* the network ids a request names: those handed out so far, or 1
NetworkArgs == 1..(IF db.sqlite_sequence.iot_networks = 0 THEN 1
                   ELSE db.sqlite_sequence.iot_networks)

\* the device ids a request names: those handed out so far, or 1
DeviceArgs == 1..(IF db.sqlite_sequence.devices = 0 THEN 1
                  ELSE db.sqlite_sequence.devices)

\* a request arrives on thread t
Begin(t) ==
    \/ create_network(t)
    \/ \E n \in NetworkArgs : delete_network(t, n)
    \/ \E n \in NetworkArgs : \E c \in ConnectionArgs(db) : add_device(t, n, c)
    \/ \E id \in DeviceArgs : remove_device(t, id)
    \/ \E n \in NetworkArgs : \E name \in DatasetArgs :
          load_iot_data(t, n, name)
    \/ \E n \in NetworkArgs : analyze_topology_and_connections(t, n)
    \/ \E n \in NetworkArgs : get_network_details(t, n)

\* the request running on thread t takes its next step
Continue(t) ==
    \/ load_delete_devices(t)
    \/ load_delete_sources(t)
    \/ load_insert_devices(t)
    \/ load_connections(t)
    \/ load_insert_sources(t)
    \/ load_commit(t)
    \/ analyze_insert(t)
    \/ analyze_save_details(t)
    \/ analyze_finish(t)

\* one request at a time
Next == Begin(1) \/ Continue(1)

Spec == Init /\ [][Next]_vars

\* a request that is running keeps running: its thread takes the next step
\* of the handler until the handler returns
LiveSpec == Spec /\ WF_vars(Continue(1))

\* a request that arrives on the second thread while one is running on the
\* first: an ingestion, an analysis or a details query
Arrive(t) ==
    \/ \E n \in NetworkArgs : \E name \in DOMAIN Datasets :
          load_iot_data(t, n, name)
    \/ \E n \in NetworkArgs : analyze_topology_and_connections(t, n)
    \/ \E n \in NetworkArgs : get_network_details(t, n)

\* Requests as in Spec, and in each behaviour one request that overlaps a
\* running one: the two interleave between gateway calls, and the next
\* request starts when both have returned.
ConcurrentNext ==
    \/ pc[2] = "idle" /\ Begin(1)
    \/ Continue(1)
    \/ pc[1] # "idle" /\ res[2] = NoResult /\ Arrive(2)
    \/ Continue(2)

ConcurrentSpec == Init /\ [][ConcurrentNext]_vars

\* Requests one after the other against a catalogue that holds the batches
\* of ScenarioArgs: networks are created, loaded from those batches,
\* analysed and queried.
BatchNext ==
    \/ create_network(1)
    \/ \E n \in NetworkArgs : \E name \in ScenarioArgs :
          load_iot_data(1, n, name)
    \/ \E n \in NetworkArgs : analyze_topology_and_connections(1, n)
    \/ \E n \in NetworkArgs : get_network_details(1, n)
    \/ Continue(1)

BatchSpec == Init /\ [][BatchNext]_vars

---------------------------------------------------------------------------
(* The domain model on its own: analyze_topology and validate_connections *)
(* applied to a device list                                               *)

\* the connections list of device id: the targets of its entries, in order
AdjacencyOf(id, entries) ==
    LET Mine(e) == e[1] = id
        mine == SelectSeq(entries, Mine)
    IN  [k \in 1..Len(mine) |-> mine[k][2]]

\* the devices 1..n, ordered by id, with the given adjacency entries
DeviceList(n, entries) ==
    [id \in 1..n |-> MkDevice(id, AdjacencyOf(id, entries))]

\* the adjacency entries tried for n devices: up to MaxTopoEdges entries,
\* each from a device of the list to a device of the list (itself included)
\* or to the id n + 1, which is no device of the list
EntryLists(n) ==
    UNION {[1..k -> (1..n) \X (1..(n + 1))] : k \in 0..MaxTopoEdges}

TopoInit ==
    /\ InitService
    /\ \E n \in 0..MaxTopoDevices : \E entries \in EntryLists(n) :
          snapshot = DeviceList(n, entries)
    /\ report = NoResult

\* network.validate_connections(devices), then network.analyze_topology(devices)
AnalyzeSnapshot ==
    /\ report = NoResult
    /\ report' =
          IF snapshot = <<>>
          THEN [op |-> "analyze_topology", raised |-> "ValueError",
                valid |-> validate_connections(snapshot)]
          ELSE [op |-> "analyze_topology", raised |-> "",
                valid |-> validate_connections(snapshot),
                result |-> analyze_topology(snapshot)]
    /\ UNCHANGED <<db, committed, inTx, clock, pc, loc, res, ops, faults,
                   snapshot>>

TopoNext == AnalyzeSnapshot

TopoSpec == TopoInit /\ [][TopoNext]_vars

\* the reports tried for the recommendations: up to MaxIssues isolated
\* devices and redundant links, and a centrality score in tenths
Reports ==
    [isolated_nodes   : UNION {[1..k -> 1..2] : k \in 0..MaxIssues},
     redundant_links  : UNION {[1..k -> {<<1, 2>>}] : k \in 0..MaxIssues},
     centrality_score : {<<k, 10>> : k \in 0..MaxScoreTenths}]

ReportInit ==
    /\ InitService
    /\ snapshot \in Reports
    /\ report = NoResult

\* analysis_result.get_recommendations() and
\* _generate_recommendations(analysis_result) on the report
Recommend ==
    /\ report = NoResult
    /\ report' = [op |-> "get_recommendations",
                  recommendations |-> get_recommendations(snapshot),
                  generated |-> generate_recommendations(snapshot)]
    /\ UNCHANGED <<db, committed, inTx, clock, pc, loc, res, ops, faults,
                   snapshot>>

ReportNext == Recommend

ReportSpec == ReportInit /\ [][ReportNext]_vars

\* a Device as load_iot_data creates it: connections=[]
DeviceInit ==
    /\ InitService
    /\ \E id \in 1..MaxTopoDevices : snapshot = MkDevice(id, <<>>)
    /\ report = NoResult

\* device.add_connection(device_id), for the id of a device of the network
\* (the device's own id included) or an id that is none
AddConnection ==
    /\ \E device_id \in 1..(MaxTopoDevices + 1) :
          /\ snapshot' = add_connection(snapshot, device_id)
          /\ report' = [op |-> "add_connection", device_id |-> device_id,
                        before |-> snapshot.connections]
    /\ UNCHANGED <<db, committed, inTx, clock, pc, loc, res, ops, faults>>

DeviceNext == AddConnection

DeviceSpec == DeviceInit /\ [][DeviceNext]_vars

\* the snapshot was analysed and analyze_topology returned a result
Analysed == report # NoResult /\ report.raised = ""

\* how often x occurs in the sequence s
Count(s, x) == Cardinality({k \in 1..Len(s) : s[k] = x})

---------------------------------------------------------------------------
(* Claims *)

\* thread t is idle and the last call it finished was op
Finished(t, op) == pc[t] = "idle" /\ res[t].op = op

DevicesOfNetwork(d, n) == {r \in d.devices : r.network_id = n}

DeviceIdsOfNetwork(d, n) == {r.id : r \in DevicesOfNetwork(d, n)}

SourcesOfNetwork(d, n) == {r \in d.data_sources : r.network_id = n}

\* the connection rows of the devices ids, as DeviceGateway.to_domain_model
\* reads them: the rows whose device_id is one of them
ConnectionsOf(d, ids) ==
    LET Owned(row) == row[1] \in ids
    IN  SelectSeq(d.device_connections, Owned)

\* the stored devices, connections and data sources of network n
ContentOf(d, n) ==
    [devices      |-> DevicesOfNetwork(d, n),
     connections  |-> ConnectionsOf(d, DeviceIdsOfNetwork(d, n)),
     data_sources |-> SourcesOfNetwork(d, n)]

\* the analysis rows of network n with their detail rows
ReportsOf(d, n) ==
    LET rows == {r \in d.analysis : r.network_id = n}
    IN  {AnalysisGateway_to_domain_model(d, r.id) : r \in rows}

\* C1: a load_iot_data that fails after its checks passed leaves the
\* network's devices, connections and data sources as they were before the
\* call.
C1_LoadAllOrNothing ==
    (/\ Finished(1, "load_iot_data")
     /\ ~res[1].success
     /\ res[1].phase # "checks")
    => ContentOf(db, res[1].arg) = ContentOf(res[1].before, res[1].arg)

\* the names of the rows with the given ids, in id order
NamesInOrder(rows, Name(_)) ==
    LET ids == SortedSeq({r.id : r \in rows})
    IN  [k \in 1..Len(ids) |-> Name(CHOOSE r \in rows : r.id = ids[k])]

\* a successful load_iot_data of thread 1 has just returned
LoadSucceeded == Finished(1, "load_iot_data") /\ res[1].success

\* C2: after a successful load_iot_data the network holds exactly the batch:
\* nothing it held before is left, its devices and data sources are the
\* records of the batch in input order and as many as the call reports, and
\* its connections are those of the batch, each pair stored once.
C2_LoadReplaces ==
    LoadSucceeded =>
        LET r == res[1]
            n == r.arg
            batch == Datasets[r.dataset_name]
            m == r.device_id_map
            DeviceName(row) == row.device_name
            SourceName(row) == row.datasource_name
            now == DeviceIdsOfNetwork(db, n)
            old == DeviceIdsOfNetwork(r.before, n)
            rows == ConnectionsOf(db, now \cup old)
        IN  /\ now \cap old = {}
            /\ \A x \in SourcesOfNetwork(db, n) :
                   x.id \notin {y.id : y \in SourcesOfNetwork(r.before, n)}
            /\ NamesInOrder(DevicesOfNetwork(db, n), DeviceName)
                  = [k \in 1..Len(batch.devices) |-> batch.devices[k].name]
            /\ NamesInOrder(SourcesOfNetwork(db, n), SourceName)
                  = [k \in 1..Len(batch.data_sources) |->
                        batch.data_sources[k].name]
            /\ r.devices_loaded = Len(batch.devices)
            /\ r.data_sources_loaded = Len(batch.data_sources)
            /\ \A k \in 1..Len(rows) :
                   \E j \in 1..Len(batch.connections) :
                       /\ batch.connections[j][1] \in DOMAIN m
                       /\ batch.connections[j][2] \in DOMAIN m
                       /\ rows[k] = <<m[batch.connections[j][1]],
                                      m[batch.connections[j][2]]>>
            /\ \A j \in 1..Len(batch.connections) :
                   LET a == batch.connections[j][1]
                       b == batch.connections[j][2]
                   IN  (a \in DOMAIN m /\ b \in DOMAIN m /\ m[a] # m[b]) =>
                          Count(rows, <<m[a], m[b]>>)
                             + Count(rows, <<m[b], m[a]>>) = 1

\* a successful load_iot_data into a network that held devices, connections
\* and data sources
C2_Witness ==
    /\ LoadSucceeded
    /\ ContentOf(res[1].before, res[1].arg).devices # {}
    /\ ContentOf(res[1].before, res[1].arg).connections # <<>>
    /\ ContentOf(res[1].before, res[1].arg).data_sources # {}
    /\ ContentOf(db, res[1].arg).connections # <<>>

\* the values of the map m
Values(m) == {m[x] : x \in DOMAIN m}

\* thread 1 is between two steps of a load_iot_data
LoadInFlight ==
    pc[1] \in {"load_delete_devices", "load_delete_sources",
               "load_insert_devices", "load_connections",
               "load_insert_sources", "load_commit"}

\* the devices and data sources are those the network held when the load
\* in flight on thread 1 began
PriorContent(devices, data_sources) ==
    LET l == loc[1]
    IN  /\ devices = LoadDevices(l.before, l.network_id)
        /\ data_sources = DataSourceFinder_find_by_network(l.before,
                                                           l.network_id)

\* the devices and data sources are the whole batch of the load in flight on
\* thread 1: all its devices and none of the earlier ones, each of its
\* connections on one of its ends, and all its data sources
NewContent(devices, data_sources) ==
    LET l == loc[1]
        batch == Datasets[l.dataset_name]
        m == l.device_id_map
        Linked(a, b) == \E k \in 1..Len(devices) :
                            /\ devices[k].id = m[a]
                            /\ m[b] \in Range(devices[k].connections)
    IN  /\ DOMAIN m = {batch.devices[k].original_id :
                          k \in 1..Len(batch.devices)}
        /\ DeviceIds(devices) = Values(m)
        /\ \A j \in 1..Len(batch.connections) :
               \/ Linked(batch.connections[j][1], batch.connections[j][2])
               \/ Linked(batch.connections[j][2], batch.connections[j][1])
        /\ Len(data_sources) = Len(batch.data_sources)
        /\ Range(data_sources) \cap
               Range(DataSourceFinder_find_by_network(l.before,
                                                      l.network_id)) = {}

\* C3: a details query or an analysis that runs on the network of a
\* load_iot_data in flight observes the complete prior content or the
\* complete new content.
C3_ReplaceAtomic ==
    /\ (/\ LoadInFlight
        /\ Finished(2, "get_network_details")
        /\ res[2].call = loc[1].call + 1
        /\ res[2].arg = loc[1].network_id)
       => \/ PriorContent(res[2].details.devices, res[2].details.data_sources)
          \/ NewContent(res[2].details.devices, res[2].details.data_sources)
    /\ (/\ LoadInFlight
        /\ pc[2] = "analyze_insert"
        /\ loc[2].call = loc[1].call + 1
        /\ loc[2].network_id = loc[1].network_id)
       => LET sources == DataSourceFinder_find_by_network(loc[2].before,
                                                          loc[2].network_id)
          IN  \/ PriorContent(loc[2].devices, sources)
              \/ NewContent(loc[2].devices, sources)

\* the devices of network n and their connections are the batch of the
\* successful load result r
HoldsBatchOf(r, n) ==
    LET batch == Datasets[r.dataset_name]
        m == r.device_id_map
        rows == ConnectionsOf(db, DeviceIdsOfNetwork(db, n))
    IN  /\ DeviceIdsOfNetwork(db, n) = Values(m)
        /\ \A k \in 1..Len(rows) :
               \E j \in 1..Len(batch.connections) :
                   rows[k] = <<m[batch.connections[j][1]],
                               m[batch.connections[j][2]]>>
        /\ \A j \in 1..Len(batch.connections) :
               LET a == m[batch.connections[j][1]]
                   b == m[batch.connections[j][2]]
               IN  Count(rows, <<a, b>>) + Count(rows, <<b, a>>) = 1

\* C4: after two overlapping load_iot_data into the same network have both
\* succeeded, the network holds the devices and connections of exactly one
\* of the two batches.
C4_LoadsSerialized ==
    (/\ Finished(1, "load_iot_data") /\ res[1].success
     /\ Finished(2, "load_iot_data") /\ res[2].success
     /\ res[2].call = res[1].call + 1
     /\ res[2].arg = res[1].arg)
    => \/ HoldsBatchOf(res[1], res[1].arg)
       \/ HoldsBatchOf(res[2], res[1].arg)

\* C5: after a successful delete_network the store holds no device, no
\* connection between its devices, no data source and no analysis report of
\* the network.
C5_DeleteNetworkCascades ==
    (Finished(1, "delete_network") /\ res[1].success) =>
        LET n == res[1].arg
            ids == DeviceIdsOfNetwork(res[1].before, n)
        IN  /\ DevicesOfNetwork(db, n) = {}
            /\ \A k \in 1..Len(db.device_connections) :
                   ~(/\ db.device_connections[k][1] \in ids
                     /\ db.device_connections[k][2] \in ids)
            /\ SourcesOfNetwork(db, n) = {}
            /\ ReportsOf(db, n) = {}

\* the stored reports: the analysis rows whose detail rows are written and
\* committed
StoredReports ==
    {a \in {r.id : r \in committed.analysis} :
        /\ \A t \in Threads :
               ~(pc[t] = "analyze_save_details" /\ loc[t].analysis_id = a)
        /\ AnalysisGateway_to_domain_model(db, a)
              = AnalysisGateway_to_domain_model(committed, a)}

\* the report without the entries that name a device of gone
Without(r, gone) ==
    LET KeepNode(x) == x \notin gone
        KeepLink(x) == x[1] \notin gone /\ x[2] \notin gone
    IN  [r EXCEPT !.isolated_nodes = SelectSeq(@, KeepNode),
                  !.redundant_links = SelectSeq(@, KeepLink)]

C7_FailedAnalysisPersistsNothing ==
    (Finished(1, "analyze") /\ ~res[1].success)
    => ReportsOf(db, res[1].arg) = ReportsOf(res[1].before, res[1].arg)

\* Scenario A: S1 = 1, S2 = 2, C = 3 with the entries S1 -> C and S2 -> C
ScenarioA == DeviceList(3, << <<1, 3>>, <<2, 3>> >>)

\* C8: analysing scenario A yields no isolated device, no redundant link and
\* the centrality 2/3 (0.6667 when rounded to four places).
C8_ScenarioA ==
    (Analysed /\ snapshot = ScenarioA) =>
        /\ report.result.isolated_nodes = <<>>
        /\ report.result.redundant_links = <<>>
        /\ report.result.centrality_score[1] * 3
              = report.result.centrality_score[2] * 2
        /\ Round4(report.result.centrality_score) = 6667

\* the only entries between the devices a and b are a -> b and b -> a
OnlySymmetricPair(devices, a, b) ==
    /\ a \in DeviceIds(devices) /\ b \in DeviceIds(devices) /\ a # b
    /\ Count(DeviceOf(devices, a).connections, b) = 1
    /\ Count(DeviceOf(devices, b).connections, a) = 1

\* C9: a pair of devices joined by exactly the two entries A -> B and B -> A
\* is reported as redundant exactly once.
C9_SymmetricPairOnce ==
    Analysed =>
        \A a, b \in DeviceIds(snapshot) :
            OnlySymmetricPair(snapshot, a, b) =>
                Count(report.result.redundant_links, SortedPair(a, b)) = 1

\* Scenario B: A = 1 with the adjacency [B, B], B = 2 with [A], and a third
\* device
ScenarioB == DeviceList(3, << <<1, 2>>, <<1, 2>>, <<2, 1>> >>)

\* C10: analysing scenario B yields two redundant links and no isolated
\* device.
C10_ScenarioB ==
    (Analysed /\ snapshot = ScenarioB) =>
        /\ Len(report.result.redundant_links) = 2
        /\ report.result.isolated_nodes = <<>>

\* a device list the store can hold and the service analyses: no connections
\* list repeats an entry (UNIQUE(device_id, connected_device_id)) and the
\* list passes validate_connections
Storable(devices) ==
    /\ validate_connections(devices)
    /\ \A i \in 1..Len(devices) : FirstRepeat(devices[i].connections) = 0

\* C11: the centrality score of every analysed device list lies in [0, 1],
\* and it is 0 when the list has at most one device.
C11_CentralityRange ==
    (Analysed /\ Storable(snapshot)) =>
        LET score == report.result.centrality_score
        IN  /\ 0 <= score[1]
            /\ score[1] <= score[2]
            /\ Len(snapshot) <= 1 => score[1] = 0

\* the devices of the list with a non-empty connections list
WithAdjacency(devices) ==
    {devices[i].id : i \in {k \in 1..Len(devices) :
                               devices[k].connections # <<>>}}

\* C12: the reported isolated nodes and the devices with a non-empty
\* adjacency are disjoint, and together they are all devices of the list.
C12_IsolatedPartition ==
    Analysed =>
        LET isolated == Range(report.result.isolated_nodes)
        IN  /\ isolated \cap WithAdjacency(snapshot) = {}
            /\ isolated \cup WithAdjacency(snapshot) = DeviceIds(snapshot)

\* an analysed list with an isolated device that another device lists, and
\* a device with adjacency
C12_Witness ==
    /\ Analysed
    /\ WithAdjacency(snapshot) # {}
    /\ \E i \in 1..Len(snapshot) :
           /\ snapshot[i].connections = <<>>
           /\ snapshot[i].id \in Range(report.result.isolated_nodes)
           /\ \E j \in 1..Len(snapshot) :
                  snapshot[i].id \in Range(snapshot[j].connections)

\* how many devices, stored connections and data sources network n holds
CountsOf(d, n) ==
    [devices      |-> Cardinality(DevicesOfNetwork(d, n)),
     connections  |-> Len(ConnectionsOf(d, DeviceIdsOfNetwork(d, n))),
     data_sources |-> Cardinality(SourcesOfNetwork(d, n))]

\* thread 1 is about to finish a load_iot_data that directly follows its
\* successful load_iot_data of the same dataset into the same network
SecondLoadAtCommit ==
    /\ pc[1] = "load_commit"
    /\ res[1].op = "load_iot_data"
    /\ res[1].success
    /\ res[1].arg = loc[1].network_id
    /\ res[1].dataset_name = loc[1].dataset_name
    /\ loc[1].call = res[1].call + 1

\* C13: when a dataset is loaded twice in a row into the same network and
\* both calls succeed, the network holds as many devices, stored connections
\* and data sources after the second call as after the first.
C13_ReingestSameCounts ==
    [][(SecondLoadAtCommit /\ pc'[1] = "idle" /\ res'[1].success) =>
          CountsOf(db', loc[1].network_id)
             = CountsOf(loc[1].before, loc[1].network_id)]_vars

\* the second load has replaced the devices and written its whole batch
C13_Witness ==
    /\ SecondLoadAtCommit
    /\ CountsOf(loc[1].before, loc[1].network_id).connections > 0
    /\ DeviceIdsOfNetwork(db, loc[1].network_id)
          \cap DeviceIdsOfNetwork(loc[1].before, loc[1].network_id) = {}
    /\ CountsOf(db, loc[1].network_id)
          = CountsOf(loc[1].before, loc[1].network_id)

\* the external ids of the device records of a batch
OriginalIds(batch) ==
    {batch.devices[k].original_id : k \in 1..Len(batch.devices)}

\* the connection pairs of a batch with an end that none of its device
\* records carries
AbsentPairs(batch) ==
    {j \in 1..Len(batch.connections) :
        \/ batch.connections[j][1] \notin OriginalIds(batch)
        \/ batch.connections[j][2] \notin OriginalIds(batch)}

\* thread 1 is at a connection pair with an absent end
AtAbsentPair ==
    /\ pc[1] = "load_connections"
    /\ loc[1].i \in AbsentPairs(Batches[loc[1].dataset_name])

\* C14 (Scenario D): load_iot_data passes over a connection pair with an end
\* that is absent from the batch's device records: the step stores nothing,
\* does not count the pair and does not end the call, and the load that
\* succeeds has stored and counted the other pairs only.
C14_ScenarioD ==
    [][/\ AtAbsentPair =>
            /\ db' = db
            /\ pc'[1] \in {"load_connections", "load_insert_sources",
                           "load_commit"}
            /\ loc'[1].connection_count = loc[1].connection_count
       /\ (/\ pc[1] = "load_commit" /\ pc'[1] = "idle" /\ res'[1].success
           /\ AbsentPairs(Batches[loc[1].dataset_name]) # {})
          => LET batch == Batches[loc[1].dataset_name]
                 m == loc[1].device_id_map
                 kept == (1..Len(batch.connections)) \ AbsentPairs(batch)
                 rows == ConnectionsOf(db', DeviceIdsOfNetwork(
                                                db', loc[1].network_id))
             IN  /\ \A k \in 1..Len(rows) :
                        \E j \in kept :
                            rows[k] = <<m[batch.connections[j][1]],
                                        m[batch.connections[j][2]]>>
                 /\ \A j \in kept :
                        Count(rows, <<m[batch.connections[j][1]],
                                      m[batch.connections[j][2]]>>) = 1
                 /\ res'[1].connections_loaded = Cardinality(kept)
                 /\ res'[1].connections_loaded = Len(rows)]_vars

\* a load of a batch with absent ends has succeeded and stored the one pair
\* whose ends are both in the batch
C14_Witness ==
    /\ LoadSucceeded
    /\ AbsentPairs(Batches[res[1].dataset_name]) # {}
    /\ res[1].connections_loaded = 1
    /\ Len(ConnectionsOf(db, DeviceIdsOfNetwork(db, res[1].arg))) = 1

\* thread 1 has finished an analysis of a network that existed and held no
\* device when the call began
AnalysedEmptyNetwork ==
    /\ Finished(1, "analyze")
    /\ res[1].arg \in res[1].before.iot_networks
    /\ DevicesOfNetwork(res[1].before, res[1].arg) = {}

\* C15 (Scenario C): analysing an existing network without devices fails
\* with the EmptyNetwork error and stores no report.
C15_ScenarioC ==
    AnalysedEmptyNetwork =>
        /\ ~res[1].success
        /\ res[1].error = "EmptyNetwork"
        /\ db.analysis = res[1].before.analysis
        /\ ReportsOf(db, res[1].arg) = ReportsOf(res[1].before, res[1].arg)

\* the analysis of an empty network has returned while another network
\* holds a device
C15_Witness ==
    /\ AnalysedEmptyNetwork
    /\ res[1].error = "EmptyNetwork"
    /\ db.devices # {}

\* thread 1 has finished a load_iot_data on a network id that did not exist
\* when the call began
LoadedMissingNetwork ==
    /\ Finished(1, "load_iot_data")
    /\ res[1].arg \notin res[1].before.iot_networks

\* C16: load_iot_data on a network id that does not exist returns the
\* NetworkNotFound failure, whatever the dataset name, and leaves the store
\* unchanged.
C16_NetworkCheckedFirst ==
    LoadedMissingNetwork =>
        /\ ~res[1].success
        /\ res[1].error = "NetworkNotFound"
        /\ db = res[1].before

\* the call named no dataset or an unknown one, on a store that holds devices
C16_Witness ==
    /\ LoadedMissingNetwork
    /\ res[1].dataset_name \notin DOMAIN Datasets
    /\ res[1].error = "NetworkNotFound"
    /\ db.devices # {}

\* the failures the two calls return
ErrorKinds ==
    {"NetworkNotFound", "NoDataset", "DatasetNotFound", "EmptyNetwork",
     "InvalidTopology", "Exception"}

\* the last result of thread 1, when it is one of load_iot_data or of
\* analyze_topology_and_connections, is a success or a failure with an error
ReturnsResult ==
    (Finished(1, "load_iot_data") \/ Finished(1, "analyze")) =>
        /\ res[1].success \in BOOLEAN
        /\ ~res[1].success => res[1].error \in ErrorKinds

\* C17: load_iot_data and analyze_topology_and_connections always return:
\* a call in flight comes back, whatever step fails, and what it returns is
\* a success result or a failure with an error.
C17_ErrorsRecovered ==
    /\ []ReturnsResult
    /\ (pc[1] # "idle") ~> (pc[1] = "idle")

\* a load has returned the failure of a storage error in its connection loop
C17_Witness ==
    /\ Finished(1, "load_iot_data")
    /\ ~res[1].success
    /\ res[1].error = "Exception"
    /\ res[1].phase = "load_connections"

\* the recommendations of the report in snapshot were computed
Recommended == report.op = "get_recommendations"

\* the list follows the four rules for the report r
FollowsRules(list, r) ==
    LET kinds == Range(list)
        isolated == Len(r.isolated_nodes) > 0
        redundant == Len(r.redundant_links) > 0
        low == Less(r.centrality_score, <<3, 10>>)
        high == Less(<<7, 10>>, r.centrality_score)
    IN  /\ "isolated" \in kinds <=> isolated
        /\ "redundant" \in kinds <=> redundant
        /\ "low_centrality" \in kinds <=> low
        /\ "high_centrality" \in kinds <=> high
        /\ list # <<>>
        /\ list = <<"healthy">> <=> ~(isolated \/ redundant \/ low \/ high)
        /\ "healthy" \in kinds => list = <<"healthy">>

\* C18: the recommendations hold the isolated-device advice iff the report
\* has isolated devices, the duplicate-link advice iff it has redundant
\* links, the under-connected advice iff its centrality is below 0.3 and
\* the over-connected advice iff it is above 0.7; the list is never empty
\* and is the single healthy message iff none of the four holds.
C18_Recommendations ==
    Recommended =>
        /\ FollowsRules(report.recommendations, snapshot)
        /\ FollowsRules(report.generated, snapshot)

\* a report with centrality exactly 0.3 or 0.7 and no isolated or redundant
\* entry got the healthy message
C18_Witness ==
    /\ Recommended
    /\ snapshot.centrality_score \in {<<3, 10>>, <<7, 10>>}
    /\ snapshot.isolated_nodes = <<>>
    /\ snapshot.redundant_links = <<>>
    /\ report.recommendations = <<"healthy">>

\* two analyses of the same network, the second started while the first was
\* running, have both returned
BothAnalysesDone ==
    /\ Finished(1, "analyze")
    /\ Finished(2, "analyze")
    /\ res[2].call = res[1].call + 1
    /\ res[2].arg = res[1].arg

\* the date of the analysis row id
DateOf(d, id) == (CHOOSE r \in d.analysis : r.id = id).date

\* ids lists at most limit analyses of network n, each once, newest first,
\* beginning with one of the greatest date
RecentFirst(d, n, ids, limit) ==
    LET rows == {r \in d.analysis : r.network_id = n}
    IN  /\ Len(ids) <= limit
        /\ Len(ids) = Min({limit, Cardinality(rows)})
        /\ \A k \in 1..Len(ids) : ids[k] \in {r.id : r \in rows}
        /\ \A j, k \in 1..Len(ids) : j < k =>
               /\ ids[j] # ids[k]
               /\ DateOf(d, ids[j]) >= DateOf(d, ids[k])
        /\ ids # <<>> => \A r \in rows : DateOf(d, ids[1]) >= r.date

\* C19: two interleaved analyses of a network succeed together and each
\* stores its own report, so that the history grows by two; and the recent
\* reports of a network come newest first, at most limit of them, the first
\* having the greatest date.
C19_ConcurrentAnalyses ==
    /\ (BothAnalysesDone /\ faults = 0) => res[1].success = res[2].success
    /\ (BothAnalysesDone /\ res[1].success /\ res[2].success) =>
          LET n == res[1].arg
              Rows(d) == {r.id : r \in {x \in d.analysis : x.network_id = n}}
          IN  /\ res[1].analysis_id # res[2].analysis_id
              /\ Rows(db) = Rows(res[1].before)
                               \cup {res[1].analysis_id, res[2].analysis_id}
              /\ Cardinality(Rows(db)) = Cardinality(Rows(res[1].before)) + 2
    /\ \A n \in NetworkArgs :
          /\ \A limit \in 1..5 :
                RecentFirst(db, n,
                            AnalysisFinder_find_by_network(db, n, limit),
                            limit)
          /\ RecentFirst(db, n, AnalysisFinder_find_last_by_network(db, n), 1)

\* both interleaved analyses succeeded, and the one that stored its report
\* first carries the later date
C19_Witness ==
    /\ BothAnalysesDone
    /\ res[1].success /\ res[2].success
    /\ \E a, b \in {res[1].analysis_id, res[2].analysis_id} :
           a < b /\ DateOf(db, a) > DateOf(db, b)
    /\ AnalysisFinder_find_last_by_network(db, res[1].arg)
          = <<Min({res[1].analysis_id, res[2].analysis_id})>>

\* C20: between service calls no stored device lists itself, and every
\* entry of a device's adjacency is a device of the same network.
C20_AdjacencyInvariant ==
    pc[1] = "idle" =>
        \A r \in db.devices :
            LET adjacency ==
                    DeviceGateway_to_domain_model(db, r.id).connections
            IN  /\ r.id \notin Range(adjacency)
                /\ Range(adjacency)
                      \subseteq DeviceIdsOfNetwork(db, r.network_id)

\* some connections list of the device list names an id that no device of
\* the list has
HasDanglingEntry(devices) ==
    \E i \in 1..Len(devices) :
        \E c \in Range(devices[i].connections) :
            \A j \in 1..Len(devices) : devices[j].id # c

\* thread 1 has finished an analysis of a network that existed and whose
\* device list, when the call began, held a dangling entry
AnalysedDanglingNetwork ==
    /\ Finished(1, "analyze")
    /\ res[1].arg \in res[1].before.iot_networks
    /\ HasDanglingEntry(LoadDevices(res[1].before, res[1].arg))

\* C21: validate_connections is false exactly for the empty device list and
\* for a list with an adjacency entry that names no device of the list, and
\* an analysis of a network with such an entry returns the InvalidTopology
\* failure and stores no report.
C21_ValidateRejectsDangling ==
    /\ \A n \in NetworkArgs :
          LET devices == LoadDevices(db, n)
          IN  validate_connections(devices)
                 <=> ~(devices = <<>> \/ HasDanglingEntry(devices))
    /\ AnalysedDanglingNetwork =>
          /\ ~res[1].success
          /\ res[1].error = "InvalidTopology"
          /\ db.analysis = res[1].before.analysis

\* an analysis was refused for an entry that names an id no device has, in a
\* store that also holds a network without devices
C21_Witness ==
    /\ AnalysedDanglingNetwork
    /\ res[1].error = "InvalidTopology"
    /\ LoadDevices(db, res[1].arg) # <<>>
    /\ \E n \in db.iot_networks : LoadDevices(db, n) = <<>>

\* the connection pairs of the batch whose ends are both keys of the map m
Resolved(batch, m) ==
    {j \in 1..Len(batch.connections) :
        /\ batch.connections[j][1] \in DOMAIN m
        /\ batch.connections[j][2] \in DOMAIN m}

\* the two devices, as an unordered pair, that the pair j of the batch joins
EndsOf(batch, m, j) ==
    {m[batch.connections[j][1]], m[batch.connections[j][2]]}

\* the first pair of the batch that joins the same two devices as the pair j
FirstOf(batch, m, j) ==
    Min({i \in Resolved(batch, m) : EndsOf(batch, m, i) = EndsOf(batch, m, j)})

\* C22: a successful load_iot_data stores, for every pair of two devices
\* that the batch lists one or more times in either order, exactly one
\* connection, in the direction of the first occurrence, and
\* connections_loaded is the number of different unordered pairs of the
\* batch.
C22_PairsDeduplicated ==
    LoadSucceeded =>
        LET r == res[1]
            batch == Batches[r.dataset_name]
            m == r.device_id_map
            rows == ConnectionsOf(db, DeviceIdsOfNetwork(db, r.arg))
        IN  /\ \A j \in Resolved(batch, m) :
                   LET first == batch.connections[FirstOf(batch, m, j)]
                       a == m[first[1]]
                       b == m[first[2]]
                   IN  a # b =>
                          /\ Count(rows, <<a, b>>) = 1
                          /\ Count(rows, <<b, a>>) = 0
            /\ r.connections_loaded
                  = Cardinality({EndsOf(batch, m, j) :
                                    j \in Resolved(batch, m)})

\* a batch that lists a pair of two devices again in the same order and in
\* the reverse order was loaded
C22_Witness ==
    /\ LoadSucceeded
    /\ LET batch == Batches[res[1].dataset_name]
           m == res[1].device_id_map
       IN  \E i, j, k \in Resolved(batch, m) :
              /\ i < j /\ i < k
              /\ batch.connections[j] = batch.connections[i]
              /\ batch.connections[k]
                    = <<batch.connections[i][2], batch.connections[i][1]>>
              /\ batch.connections[i][1] # batch.connections[i][2]
    /\ res[1].connections_loaded = 2
    /\ Len(ConnectionsOf(db, DeviceIdsOfNetwork(db, res[1].arg))) = 2

DeviceRemoved == Finished(1, "remove_device") /\ res[1].success

\* the connection rows of the store d that name the device id, as source or
\* as target
RowsNaming(d, id) ==
    {k \in 1..Len(d.device_connections) :
        \/ d.device_connections[k][1] = id
        \/ d.device_connections[k][2] = id}

\* C25: after a successful remove_device the device is not in the store, no
\* connection row has it as source or as target, and no device lists it in
\* its adjacency.
C25_RemoveDevicePurges ==
    DeviceRemoved =>
        /\ \A r \in db.devices : r.id # res[1].arg
        /\ RowsNaming(db, res[1].arg) = {}
        /\ \A r \in db.devices :
               res[1].arg \notin
                   Range(DeviceGateway_to_domain_model(db, r.id).connections)

\* the removed device was listed by a device that is still stored
C25_Witness ==
    /\ DeviceRemoved
    /\ \E k \in RowsNaming(res[1].before, res[1].arg) :
           /\ res[1].before.device_connections[k][2] = res[1].arg
           /\ res[1].before.device_connections[k][1] # res[1].arg
           /\ \E r \in db.devices :
                  r.id = res[1].before.device_connections[k][1]

\* add_connection was called on the device in snapshot
ConnectionAdded == report.op = "add_connection"

\* the list names no id twice
DuplicateFree(connections) ==
    \A j, k \in 1..Len(connections) :
        connections[j] = connections[k] => j = k

\* C26: add_connection with the device's own id or with an id already in
\* the list leaves the list as it was, any other id is appended once, a
\* repeated call changes nothing further, and the list never holds an id
\* twice or the device's own id.
C26_AddConnectionIdempotent ==
    /\ DuplicateFree(snapshot.connections)
    /\ \A k \in 1..Len(snapshot.connections) :
           snapshot.connections[k] # snapshot.id
    /\ ConnectionAdded =>
          /\ IF \/ report.device_id = snapshot.id
                \/ \E k \in 1..Len(report.before) :
                       report.before[k] = report.device_id
             THEN snapshot.connections = report.before
             ELSE snapshot.connections
                     = Append(report.before, report.device_id)
          /\ add_connection(snapshot, report.device_id) = snapshot

\* the device was given its own id and an id it already listed, after it
\* had accepted two others
C26_Witness ==
    /\ ConnectionAdded
    /\ Len(snapshot.connections) >= 2
    /\ snapshot.connections = report.before
    /\ report.device_id # snapshot.id
    /\ add_connection(snapshot, snapshot.id) = snapshot

\* C27: a successful add_device stores no connection from the new device to
\* an id that is not a device of its network.
C27_MissingTargetIgnored ==
    (Finished(1, "add_device") /\ res[1].success) =>
        \A k \in 1..Len(db.device_connections) :
            db.device_connections[k][1] = res[1].device_id =>
                db.device_connections[k][2]
                   \in DeviceIdsOfNetwork(db, res[1].arg)

\* the devices of the list that no connections list of the list names
Unreferenced(devices) ==
    {devices[i].id : i \in {k \in 1..Len(devices) :
        \A j \in 1..Len(devices) :
            devices[k].id \notin Range(devices[j].connections)}}

\* C28: the reported isolated nodes are the devices with no outgoing and no
\* incoming connection: those with an empty connections list that no other
\* device lists.
C28_IsolatedInAndOut ==
    (Analysed /\ Storable(snapshot)) =>
        Range(report.result.isolated_nodes)
           = (DeviceIds(snapshot) \ WithAdjacency(snapshot))
                \cap Unreferenced(snapshot)

\* the positions of an analysis that has passed its checks
AnalysisSteps == {"analyze_insert", "analyze_save_details", "analyze_finish"}

\* the step belongs to an analyze_topology_and_connections of thread 1: it
\* starts one, continues one or is one that returns from its checks
AnalysisStep ==
    \/ pc[1] \in AnalysisSteps
    \/ pc'[1] \in AnalysisSteps
    \/ /\ pc[1] = "idle" /\ ops' = ops + 1
       /\ pc'[1] = "idle" /\ res'[1].op = "analyze"

\* the isolated list, the redundant list and the centrality of a report
Findings(r) ==
    [isolated_nodes   |-> r.isolated_nodes,
     redundant_links  |-> r.redundant_links,
     centrality_score |-> r.centrality_score]

\* thread 1 has stored the report of an analysis that directly follows its
\* successful analysis of the same network
SecondAnalysisStored ==
    /\ pc[1] = "analyze_finish"
    /\ res[1].op = "analyze"
    /\ res[1].success
    /\ res[1].arg = loc[1].network_id
    /\ loc[1].call = res[1].call + 1

\* C29: no step of an analysis changes a network, a device, a connection or
\* a data source, and the device list it analysed is still the stored one;
\* an analysis that succeeds leaves the earlier reports as they were and
\* adds exactly one, which holds what analyze_topology yields for the
\* stored devices; and an analysis repeated on the unchanged network stores
\* the same isolated list, redundant list and centrality score.
C29_AnalysisPure ==
    [][/\ AnalysisStep =>
             /\ db'.iot_networks = db.iot_networks
             /\ db'.devices = db.devices
             /\ db'.device_connections = db.device_connections
             /\ db'.data_sources = db.data_sources
       /\ pc[1] \in AnalysisSteps =>
             loc[1].devices = LoadDevices(db, loc[1].network_id)
       /\ (pc[1] = "analyze_finish" /\ pc'[1] = "idle" /\ res'[1].success) =>
             LET n == loc[1].network_id
                 before == loc[1].before
                 new == AnalysisGateway_to_domain_model(db',
                                                        res'[1].analysis_id)
             IN  /\ new \notin ReportsOf(before, n)
                 /\ ReportsOf(db', n) = ReportsOf(before, n) \cup {new}
                 /\ Cardinality(db'.analysis)
                       = Cardinality(before.analysis) + 1
                 /\ \A o \in db.iot_networks \ {n} :
                        ReportsOf(db', o) = ReportsOf(before, o)
                 /\ Findings(new)
                       = Findings(analyze_topology(LoadDevices(db', n)))
       /\ SecondAnalysisStored =>
             Findings(AnalysisGateway_to_domain_model(db,
                                                      loc[1].analysis_id))
                = Findings(AnalysisGateway_to_domain_model(
                               db, res[1].analysis_id))]_vars

\* a second analysis of a network with a connection and an isolated device
\* has succeeded and the network holds one report more
C29_Witness ==
    /\ Finished(1, "analyze")
    /\ res[1].success
    /\ res[1].isolated_nodes_count > 0
    /\ ContentOf(db, res[1].arg).connections # <<>>
    /\ ReportsOf(res[1].before, res[1].arg) # {}
    /\ Cardinality(ReportsOf(db, res[1].arg))
          = Cardinality(ReportsOf(res[1].before, res[1].arg)) + 1

\* the step starts, on thread 1, the analysis of the network that the
\* successful load_iot_data just before it filled
AnalysisFollowsLoad ==
    /\ LoadSucceeded
    /\ Batches[res[1].dataset_name].devices # <<>>
    /\ ops' = ops + 1
    /\ \/ /\ pc'[1] = "analyze_insert"
          /\ loc'[1].network_id = res[1].arg
       \/ /\ pc'[1] = "idle"
          /\ res'[1].op = "analyze"
          /\ res'[1].arg = res[1].arg

\* thread 1 analyses the network that its successful load_iot_data, the call
\* before, filled
AnalysingLoadedNetwork ==
    /\ pc[1] \in AnalysisSteps
    /\ res[1].op = "load_iot_data"
    /\ res[1].success
    /\ res[1].arg = loc[1].network_id
    /\ loc[1].call = res[1].call + 1

\* C30: the devices a successful load_iot_data of a batch with a device
\* leaves in the network pass validate_connections and hold no redundant
\* link: each stored connection joins two different devices of the network
\* and no two devices are joined twice; the analysis called next on the
\* network passes its checks and finds no redundant link.
C30_LoadedNetworkIsClean ==
    [][/\ (LoadSucceeded /\ Batches[res[1].dataset_name].devices # <<>>) =>
             LET n == res[1].arg
                 ids == DeviceIdsOfNetwork(db, n)
                 rows == ConnectionsOf(db, ids)
             IN  /\ \A k \in 1..Len(rows) :
                        /\ rows[k][1] # rows[k][2]
                        /\ rows[k][2] \in ids
                 /\ \A j, k \in 1..Len(rows) :
                        {rows[j][1], rows[j][2]} = {rows[k][1], rows[k][2]}
                           => j = k
                 /\ validate_connections(LoadDevices(db, n))
                 /\ analyze_topology(LoadDevices(db, n)).redundant_links
                       = <<>>
       /\ AnalysisFollowsLoad =>
             /\ pc'[1] = "analyze_insert"
             /\ loc'[1].analysis_result.redundant_links = <<>>
       /\ (AnalysingLoadedNetwork /\ pc'[1] = "idle" /\ res'[1].success) =>
             res'[1].redundant_links_count = 0]_vars

\* the analysis of a network just loaded from a batch that repeats a pair in
\* reverse order, or that pairs a device with itself, has passed its checks
\* and found no redundant link
C30_Witness ==
    /\ AnalysingLoadedNetwork
    /\ LET batch == Batches[res[1].dataset_name]
       IN  \E j, k \in 1..Len(batch.connections) :
              /\ batch.connections[j][1] = batch.connections[k][2]
              /\ batch.connections[j][2] = batch.connections[k][1]
    /\ ContentOf(db, res[1].arg).connections # <<>>
    /\ loc[1].analysis_result.redundant_links = <<>>

====
